---- MODULE Spec2Model ----
(***************************************************************************)
(* Model of app/bot.py: the Telegram -> Immich bridge bot.                 *)
(*                                                                         *)
(* Every inbound update is handled by one coroutine (a "task").  A task    *)
(* runs synchronously from one await to the next; the awaits are           *)
(* bot.get_file, file.download_to_drive and message.reply_text.  Each      *)
(* action below is the completion of the await a task is suspended at,     *)
(* followed by the code up to the next await (or to the end of the         *)
(* handler, its finally clause included).  The requests.get /              *)
(* requests.post calls of the bot are blocking calls made on the event     *)
(* loop's thread: a task inside one of them is in the state ping_wait or   *)
(* post_wait, and no other action is enabled until the call has returned.  *)
(*                                                                         *)
(* Strings that the code takes apart or glues together (file names, file   *)
(* identifiers, paths) are sequences of one-character strings.             *)
(***************************************************************************)
EXTENDS Integers, Sequences, FiniteSets, TLC

(***************************************************************************)
(* Bounds of the model.                                                    *)
(***************************************************************************)
NumTasks == 2

Tasks == 1 .. NumTasks

None == <<"None">>

(***************************************************************************)
(* String helpers.                                                         *)
(***************************************************************************)
UpperChars == <<"A","B","C","D","E","F","G","H","I","J","K","L","M",
                "N","O","P","Q","R","S","T","U","V","W","X","Y","Z">>
LowerChars == <<"a","b","c","d","e","f","g","h","i","j","k","l","m",
                "n","o","p","q","r","s","t","u","v","w","x","y","z">>

LowerChar(c) ==
    IF \E i \in 1 .. Len(UpperChars) : UpperChars[i] = c
    THEN LowerChars[CHOOSE i \in 1 .. Len(UpperChars) : UpperChars[i] = c]
    ELSE c

\* str.lower()
Lower(s) == [i \in 1 .. Len(s) |-> LowerChar(s[i])]

\* os.path.splitext(p)[1]: the suffix from the last dot on, empty when the
\* name has no dot after its first non-dot character.
SplitExt(s) ==
    LET dots == {i \in 1 .. Len(s) : s[i] = "."}
        last == CHOOSE i \in dots : \A j \in dots : j <= i
    IN  IF dots = {} THEN <<>>
        ELSE IF \A j \in 1 .. last : s[j] = "." THEN <<>>
        ELSE SubSeq(s, last, Len(s))

(***************************************************************************)
(* Configuration (module level of bot.py).                                 *)
(***************************************************************************)
Digits == <<"0","1","2","3","4","5","6","7","8","9">>

IsDigit(c) == \E i \in 1 .. Len(Digits) : Digits[i] = c

DigitValue(c) == (CHOOSE i \in 1 .. Len(Digits) : Digits[i] = c) - 1

\* Whether int(s) accepts s, for strings of digits and other characters.
IsInt(s) == s # <<>> /\ \A i \in 1 .. Len(s) : IsDigit(s[i])

RECURSIVE IntOf(_)
\* int(s) of a string of digits
IntOf(s) ==
    IF Len(s) = 1 THEN DigitValue(s[1])
    ELSE 10 * IntOf(SubSeq(s, 1, Len(s) - 1)) + DigitValue(s[Len(s)])

RECURSIVE Split(_, _)
\* s.split(sep) for a one-character separator
Split(s, sep) ==
    LET at == {i \in 1 .. Len(s) : s[i] = sep}
        first == CHOOSE i \in at : \A j \in at : i <= j
    IN  IF at = {} THEN <<s>>
        ELSE <<SubSeq(s, 1, first - 1)>> \o Split(SubSeq(s, first + 1, Len(s)), sep)

RECURSIVE Strip(_)
\* s.strip()
Strip(s) ==
    IF s # <<>> /\ s[1] = " " THEN Strip(Tail(s))
    ELSE IF s # <<>> /\ s[Len(s)] = " " THEN Strip(SubSeq(s, 1, Len(s) - 1))
    ELSE s

Range(q) == {q[i] : i \in 1 .. Len(q)}

\* The process environment: each required setting is unset (None), empty
\* or set.  ALLOWED_USER_IDS is also given values made of separators and
\* blanks only, values with blanks and empty items around the numbers,
\* and a value that is no number.
SettingValues(v) == {None, <<>>, v}

AllowListValues ==
    { None, <<>>, <<",">>, <<" ",","," ">>, <<" ">>, <<"1">>,
      <<"1",",","2">>, <<" ","1"," ",",">>, <<"1",",",",","2">>, <<"x">> }

Environs ==
    [TELEGRAM_BOT_TOKEN : SettingValues(<<"t","o","k">>),
     IMMICH_API_KEY : SettingValues(<<"k","e","y">>),
     IMMICH_API_URL : SettingValues(<<"u","r","l">>),
     ALLOWED_USER_IDS : AllowListValues]

\* os.getenv(name, default)
getenv(value, default) == IF value = None THEN default ELSE value

\* The default of IMMICH_API_URL (line 44).
DefaultApiUrl ==
    <<"h","t","t","p",":","/","/","y","o","u","r","-","i","m","m","i","c","h","-","i","n","s","t","a","n","c","e",".","l","t","d","/","a","p","i">>

\* ValidateWithoutAllowList: a validation that does not look at the
\* allow-list.
ValidateWithoutAllowList(token, key, url, ids) ==
    (IF token = <<>> THEN <<"TELEGRAM_BOT_TOKEN">> ELSE <<>>)
    \o (IF key = <<>> THEN <<"IMMICH_API_KEY">> ELSE <<>>)
    \o (IF url = <<>> THEN <<"IMMICH_API_URL">> ELSE <<>>)

\* validate_config(): the list missing_vars; ValueError is raised when it
\* is not empty.
validate_config(token, key, url, ids) ==
    (IF token = <<>> THEN <<"TELEGRAM_BOT_TOKEN">> ELSE <<>>)
    \o (IF key = <<>> THEN <<"IMMICH_API_KEY">> ELSE <<>>)
    \o (IF url = <<>> THEN <<"IMMICH_API_URL">> ELSE <<>>)
    \o (IF ids = <<>> THEN <<"ALLOWED_USER_IDS">> ELSE <<>>)

NotLoaded ==
    [state |-> "not loaded", TELEGRAM_BOT_TOKEN |-> <<>>, IMMICH_API_KEY |-> <<>>,
     IMMICH_API_URL |-> <<>>, ALLOWED_USER_IDS |-> <<>>, error |-> <<>>]

\* Lines 44-53, executed when the module is loaded: the settings are read,
\* the allow-list is parsed and validate_config() is called.  The state is
\* "loaded", or "failed" with the ValueError that was raised.
LoadConfig(env) ==
    LET url   == getenv(env.IMMICH_API_URL, DefaultApiUrl)
        key   == getenv(env.IMMICH_API_KEY, <<>>)
        token == getenv(env.TELEGRAM_BOT_TOKEN, <<>>)
        allowed_user_ids == env.ALLOWED_USER_IDS
        items == SelectSeq(Split(allowed_user_ids, ","),
                           LAMBDA user_id : Strip(user_id) # <<>>)
        ids   == [i \in 1 .. Len(items) |-> IntOf(Strip(items[i]))]
        failed(error) == [NotLoaded EXCEPT !.state = "failed", !.error = error]
    IN  IF allowed_user_ids = None \/ allowed_user_ids = <<>>
        THEN failed(<<"ALLOWED_USER_IDS environment variable is required">>)
        ELSE IF \E i \in 1 .. Len(items) : ~IsInt(Strip(items[i]))
        THEN failed(<<"invalid literal for int()">>)
        ELSE IF validate_config(token, key, url, ids) # <<>>
        THEN failed(<<"Missing required environment variables">>
                    \o validate_config(token, key, url, ids))
        ELSE [state |-> "loaded", TELEGRAM_BOT_TOKEN |-> token,
              IMMICH_API_KEY |-> key, IMMICH_API_URL |-> url,
              ALLOWED_USER_IDS |-> ids, error |-> <<>>]

\* The environment the handlers below run under.
RunEnv ==
    [TELEGRAM_BOT_TOKEN |-> <<"t","o","k">>, IMMICH_API_KEY |-> <<"k","e","y">>,
     IMMICH_API_URL |-> <<"u","r","l">>, ALLOWED_USER_IDS |-> <<"1">>]

Users == {1, 2}

\* The allow-list of the run environment, as a set.
ALLOWED_USER_IDS == Range(LoadConfig(RunEnv).ALLOWED_USER_IDS)

VARIABLES
    environ,    \* os.environ: the four required settings
    config,     \* the module globals set while bot.py is loaded
    call        \* the last call of a module function made from outside a
                \* handler, with its arguments and result

moduleVars == <<environ, config, call>>

NoCall == [fn |-> "none", args |-> <<>>, out |-> <<>>]

SUPPORTED_IMAGE_EXTENSIONS ==
    { <<".","p","n","g">>, <<".","j","p","g">>, <<".","j","p","e","g">>,
      <<".","g","i","f">>, <<".","b","m","p">>, <<".","t","i","f","f">>,
      <<".","h","e","i","c">>, <<".","h","e","i","f">>, <<".","w","e","b","p">> }

SUPPORTED_VIDEO_EXTENSIONS ==
    { <<".","m","p","4">>, <<".","m","o","v">>, <<".","a","v","i">>,
      <<".","m","k","v">>, <<".","w","e","b","m">>, <<".","3","g","p">>,
      <<".","m","4","v">> }

\* mimetypes.guess_type(name)[0], reduced to the prefix the bot looks at.
\* The standard table is keyed by extension and is tried case-insensitively.
GuessMimePrefix(name) ==
    LET ext == Lower(SplitExt(name))
    IN  IF ext \in { <<".","j","p","g">>, <<".","p","n","g">>, <<".","s","v","g">>,
                     <<".","g","i","f">>, <<".","b","m","p">> } THEN "image/"
        ELSE IF ext \in { <<".","m","p","4">>, <<".","m","p","g">>, <<".","m","o","v">>,
                          <<".","a","v","i">> } THEN "video/"
        ELSE IF ext \in { <<".","t","x","t">> } THEN "text/"
        ELSE "none"

\* ClassifyMimeFirst: a classification that looks at the MIME type before
\* the extension.
ClassifyMimeFirst(ext, mime_type) ==
    IF mime_type = "video/" THEN "video"
    ELSE IF mime_type = "image/" THEN "image"
    ELSE IF ext \in SUPPORTED_IMAGE_EXTENSIONS THEN "image"
    ELSE IF ext \in SUPPORTED_VIDEO_EXTENSIONS THEN "video"
    ELSE "other"

\* Lines 60-69: the if/elif chain of get_file_type.
Classify(ext, mime_type) ==
    IF ext \in SUPPORTED_IMAGE_EXTENSIONS THEN "image"
    ELSE IF ext \in SUPPORTED_VIDEO_EXTENSIONS THEN "video"
    ELSE IF mime_type = "video/" THEN "video"
    ELSE IF mime_type = "image/" THEN "image"
    ELSE "other"

\* get_file_type(file_path); "TypeError" when the name is None
\* (os.path.splitext rejects it).
get_file_type(name) ==
    IF name = None THEN "TypeError"
    ELSE Classify(Lower(SplitExt(name)), GuessMimePrefix(name))

\* is_user_allowed(user_id), with the branch it took.
AllowedBranch(user_id) ==
    IF config.ALLOWED_USER_IDS = <<>> THEN "allow everyone" ELSE "membership"

is_user_allowed(user_id) ==
    IF config.ALLOWED_USER_IDS = <<>> THEN TRUE
    ELSE user_id \in Range(config.ALLOWED_USER_IDS)


(***************************************************************************)
(* Inbound events (telegram Update objects) and the names derived from     *)
(* them.                                                                   *)
(***************************************************************************)
FileIds == { <<"f","1">>, <<"f","2">> }

DocNames == { <<"a",".","j","p","g">>, <<"b",".","M","P","4">>,
              <<"c",".","t","x","t">>, <<"d",".","m","p","g">>,
              <<"e",".","s","v","g">>, <<"n","o","e","x","t">> }

VideoNames == { <<"v",".","m","o","v">> }

\* Declared sizes of a video, in bytes.
VideoSizes == { 1024 * 1024, 21 * 1024 * 1024, 2001 * 1024 * 1024 }

ForwardDates == { None, <<"T_forward">> }

\* What the metadata extractors find in the bytes of the file that was sent.
\* An EXIF date field is absent, holds a date in the EXIF format, or holds
\* something strptime rejects.
FieldStates == {"absent", "valid", "malformed"}

\* A file that neither Image.open nor createParser can read.
Unreadable ==
    [fmt |-> "unreadable", original |-> "absent", modified |-> "absent",
     video |-> "absent"]

\* Image files, by their DateTimeOriginal and DateTime fields.
ImageContents ==
    [fmt : {"image"}, original : FieldStates, modified : FieldStates,
     video : {"absent"}] \cup {Unreadable}

\* Video files: extractMetadata gives nothing, gives metadata without a
\* creation date, gives a creation date, or raises.
VideoContents ==
    [fmt : {"video"}, original : {"absent"}, modified : {"absent"},
     video : {"no_metadata", "no_creation_date", "creation_date", "raises"}]
        \cup {Unreadable}

\* The files that can come under a name of each type.
Contents(file_type) ==
    CASE file_type = "image" -> ImageContents
      [] file_type = "video" -> VideoContents
      [] OTHER -> {Unreadable}

DocEvents ==
    { e \in [kind : {"document"}, user : Users, file_id : FileIds,
              file_name : DocNames \cup {None}, file_size : {1024 * 1024},
              forward_date : ForwardDates,
              content : ImageContents \cup VideoContents] :
        e.content \in Contents(get_file_type(e.file_name)) }

PhotoEvents ==
    [kind : {"photo"}, user : Users, file_id : FileIds,
     file_name : {None}, file_size : {1024 * 1024},
     forward_date : ForwardDates, content : ImageContents]

VideoEvents ==
    [kind : {"video"}, user : Users, file_id : FileIds,
     file_name : VideoNames \cup {None}, file_size : VideoSizes,
     forward_date : ForwardDates, content : VideoContents]

\* The commands main registers a handler for.
Commands == {"start", "help", "version", "files"}

CommandEvents ==
    [kind : Commands, user : Users, file_id : {None}, file_name : {None},
     file_size : {0}, forward_date : ForwardDates, content : {Unreadable}]

\* Text messages that are no commands.
TextEvents ==
    [kind : {"text"}, user : Users, file_id : {None}, file_name : {None},
     file_size : {0}, forward_date : ForwardDates, content : {Unreadable}]

Events ==
    DocEvents \cup PhotoEvents \cup VideoEvents \cup CommandEvents
        \cup TextEvents

\* The events offered to handlers that run interleaved.
ConcEvents ==
    { e \in Events : /\ e.user \in ALLOWED_USER_IDS
                     /\ e.file_id = <<"f","1">>
                     /\ e.forward_date = None
                     /\ e.file_size = 1024 * 1024
                     /\ e.file_name = IF e.kind = "document"
                                      THEN <<"a",".","j","p","g">> ELSE None
                     /\ e.content = Unreadable }
        \cup { e \in CommandEvents \cup TextEvents :
                     /\ e.user \in ALLOWED_USER_IDS
                     /\ e.forward_date = None
                     /\ e.kind \in {"help", "text"} }

NoEvent ==
    [kind |-> "none", user |-> 0, file_id |-> None, file_name |-> None,
     file_size |-> 0, forward_date |-> None, content |-> Unreadable]

\* The file name each handler works with.
FileName(e) ==
    CASE e.kind = "document" -> e.file_name
      [] e.kind = "photo" ->
             <<"p","h","o","t","o","_">> \o e.file_id \o <<".","j","p","g">>
      [] e.kind = "video" ->
             IF e.file_name # None THEN e.file_name
             ELSE <<"v","i","d","e","o","_">> \o e.file_id \o <<".","m","p","4">>

\* f"{x}" of a name that may be None
Format(name) == IF name = None THEN <<"N","o","n","e">> ELSE name

\* temp_file_path = f"/tmp/{file_id}_{file_name}"
temp_file_path(file_id, file_name) ==
    <<"/","t","m","p","/">> \o file_id \o <<"_">> \o Format(file_name)

Unbound == <<"unbound">>

(***************************************************************************)
(* The file system: the paths that exist, each with the task whose         *)
(* download wrote its present content.                                     *)
(***************************************************************************)
Exists(f, p) == p \in DOMAIN f

WriteFile(f, p, t) == [q \in DOMAIN f \cup {p} |-> IF q = p THEN t ELSE f[q]]

RemoveFile(f, p) == [q \in DOMAIN f \ {p} |-> f[q]]

EmptyFs == [q \in {} |-> 0]

\* FinallySkip: a finally clause that leaves the file in place.
FinallySkip(f, p) == f

\* finally: if os.path.exists(temp_file_path): os.remove(temp_file_path)
Finally(f, p) == IF Exists(f, p) THEN RemoveFile(f, p) ELSE f


(***************************************************************************)
(* What the two servers and the local libraries can answer.                *)
(***************************************************************************)
\* GET /server/ping: the status is 200, another status, or the request raises.
PingResults == {"200", "503", "raises"}

\* Messages of the exceptions raised by calls into the network.
ExcMsgs == {"timed out", "connection reset"}

\* bot.get_file(file_id)
GetFileResults == {"ok"} \cup ExcMsgs

\* file.download_to_drive(path): whether a file is at the path afterwards
\* and whether the call raised.
DownloadResults ==
    [written : BOOLEAN, raises : {"no"}] \cup [written : BOOLEAN, raises : ExcMsgs]

\* The ValueError the extractors raise.
MetadataError(file_type) == <<"ValueError", "Could not extract metadata", file_type>>

\* get_image_metadata(file_path): the creation date it returns, or the
\* ValueError it raises.  DateTimeOriginal is looked at first; DateTime is
\* looked at only when DateTimeOriginal is absent.
get_image_metadata(content) ==
    IF content.fmt # "image" THEN MetadataError("image")
    ELSE IF content.original # "absent"
    THEN IF content.original = "valid" THEN <<"T_original">>
         ELSE MetadataError("image")
    ELSE IF content.modified # "absent"
    THEN IF content.modified = "valid" THEN <<"T_modified">>
         ELSE MetadataError("image")
    ELSE MetadataError("image")

\* get_video_metadata(file_path): None without parser or metadata, the
\* creation date when there is one, ValueError otherwise.
get_video_metadata(content) ==
    IF content.fmt # "video" THEN None
    ELSE CASE content.video = "no_metadata" -> None
           [] content.video = "creation_date" -> <<"T_creation">>
           [] OTHER -> MetadataError("video")

\* ExtractOrRaise: the extraction without the try around it; a failure
\* leaves upload_to_immich's outer try.
ExtractOrRaise(file_type, content) ==
    LET r == IF file_type = "image" THEN get_image_metadata(content)
             ELSE get_video_metadata(content)
    IN  IF r = None
        THEN <<"raised", "TypeError", "cannot unpack non-iterable NoneType object">>
        ELSE IF r[1] = "ValueError" THEN <<"raised">> \o r
        ELSE r

\* Lines 299-309: file_created_at after the try that wraps the extraction;
\* unpacking None raises TypeError, and every exception is swallowed with
\* file_created_at left at None.
Extract(file_type, content) ==
    LET r == IF file_type = "image" THEN get_image_metadata(content)
             ELSE get_video_metadata(content)
    IN  IF r = None \/ r[1] = "ValueError" THEN None ELSE r

\* calculate_sha1 / open of the file: succeeds or raises OSError.
ReadResults == {"ok", "OSError"}

\* Bodies of the POST /assets response: a JSON object whose status is
\* duplicate, another JSON object, JSON that is no object, text that is no
\* JSON.
Bodies == {"{status:duplicate}", "{status:created}", "[]", "<html>"}

PostResults ==
    [status : {200, 201, 500}, body : Bodies, raises : {"no"}]
        \cup [status : {0}, body : {""}, raises : ExcMsgs]

\* message.reply_text(...): delivered, or raises.
ReplyResults == {"ok", "TelegramError"}

\* CheckAlwaysTrue: a connection check that never reports a failure.
CheckAlwaysTrue(ping) == TRUE

\* check_immich_connection()
check_immich_connection(ping) == ping = "200"

(***************************************************************************)
(* upload_to_immich, from its entry to its first await.                    *)
(***************************************************************************)
\* message_date = getattr(update.message, 'forward_date', None) or update.message.date
ForwardOrDate(forward_date, date) ==
    IF forward_date # None THEN forward_date ELSE date

\* The message_date of an update that Telegram delivered: its date is set.
MessageDate(e) == ForwardOrDate(e.forward_date, <<"T_date">>)

\* FileCreatedAtMessageFirst: a resolution that prefers the message date
\* to the embedded metadata.
FileCreatedAtMessageFirst(md, message_date) ==
    IF message_date # None THEN message_date
    ELSE IF md # None THEN md
    ELSE <<"T_now">>

\* Lines 297-320: the value of file_created_at.
FileCreatedAt(md, message_date) ==
    IF md # None THEN md
    ELSE IF message_date # None THEN message_date
    ELSE <<"T_now">>

\* InterpretDuplicateAsCreated: a response interpretation without the
\* duplicate branch.
InterpretDuplicateAsCreated(status, body) ==
    IF status \in {200, 201}
    THEN IF body = "<html>" THEN "ValueError"
         ELSE IF status = 200 /\ body = "[]" THEN "AttributeError"
         ELSE "uploaded"
    ELSE "upload_failed"

\* Lines 351-361: the branch taken for a response.  response.json() raises
\* ValueError on text that is no JSON; response_data.get raises
\* AttributeError on JSON that is no object, and is evaluated only when the
\* status is 200.
InterpretResponse(status, body) ==
    IF status \in {200, 201}
    THEN IF body = "<html>" THEN "ValueError"
         ELSE IF status = 200 /\ body = "[]" THEN "AttributeError"
         ELSE IF status = 200 /\ body = "{status:duplicate}" THEN "duplicate"
         ELSE "uploaded"
    ELSE "upload_failed"

\* Lines 293-349: upload_to_immich from its entry to the POST it issues, or
\* to the reply of its except clause when something raised before the
\* POST: [pc, pend, steps, created_at].  md is the outcome of the metadata
\* extraction, rd that of reading the file for the checksum.
UploadSync(file_type, message_date, md, rd) ==
    LET errReply(msg) == <<"upload_error", <<msg>>>>
    IN  IF md[1] = "raised"
        THEN [pc |-> "reply_upload_err", pend |-> errReply(md[3]),
              steps |-> <<"metadata">>, created_at |-> None]
        ELSE IF rd # "ok"
        THEN [pc |-> "reply_upload_err", pend |-> errReply(rd),
              steps |-> <<"metadata", "checksum">>, created_at |-> None]
        ELSE [pc |-> "post_wait", pend |-> <<"none", <<>>>>,
              steps |-> <<"metadata", "checksum", "post">>,
              created_at |-> FileCreatedAt(md, message_date)]

\* RetryOnServerError: a second POST after a 500.
RetryOnServerError(post) ==
    IF post.raises = "no" /\ post.status = 500 THEN <<"post">> ELSE <<>>

\* The requests the code issues after the POST has returned: none, the
\* response is interpreted as it is (lines 351-365).
RetrySteps(post) == <<>>

\* UploadResponseSilentDuplicate: an upload that ends without a reply when
\* the server reports a duplicate.
UploadResponseSilentDuplicate(file_type, post) ==
    IF post.raises = "no" /\ InterpretResponse(post.status, post.body) = "duplicate"
    THEN [pc |-> "done", pend |-> <<"none", <<>>>>]
    ELSE IF post.raises # "no"
    THEN [pc |-> "reply_upload_err", pend |-> <<"upload_error", <<post.raises>>>>]
    ELSE [pc |-> "reply_result",
          pend |-> <<"uploaded", <<file_type>>>>]

\* Lines 351-365: the reply upload_to_immich awaits once the POST has
\* returned or raised: [pc, pend].
UploadResponse(file_type, post) ==
    LET errReply(msg) == <<"upload_error", <<msg>>>>
    IN  IF post.raises # "no"
        THEN [pc |-> "reply_upload_err", pend |-> errReply(post.raises)]
        ELSE LET branch == InterpretResponse(post.status, post.body)
             IN  [pc |-> IF branch \in {"ValueError", "AttributeError"}
                         THEN "reply_upload_err" ELSE "reply_result",
                  pend |-> CASE branch \in {"ValueError", "AttributeError"} ->
                                    errReply(branch)
                             [] branch \in {"uploaded", "duplicate"} ->
                                    <<branch, <<file_type>>>>
                             [] branch = "upload_failed" ->
                                    <<branch, <<file_type, post.body>>>>]

\* AfterDownloadUnchecked: a handler that goes on without looking for the
\* file.
AfterDownloadUnchecked(exists, file_type) ==
    IF file_type = "TypeError" THEN "raise"
    ELSE IF file_type = "other" THEN "unsupported"
    ELSE "upload"

\* AfterDownloadAnyType: a handler that uploads files of every type.
AfterDownloadAnyType(exists, file_type) ==
    IF ~exists THEN "download_failed"
    ELSE IF file_type = "TypeError" THEN "raise"
    ELSE "upload"

\* Lines 394-409 (441-452, 488-499): where the handler goes once the
\* download has returned.
AfterDownload(exists, file_type) ==
    IF ~exists THEN "download_failed"
    ELSE IF file_type = "TypeError" THEN "raise"
    ELSE IF file_type = "other" THEN "unsupported"
    ELSE "upload"

\* The reply of each handler's except clause: handle_document sends a
\* fixed text, handle_photo and handle_video put str(e) into it.
ExceptReply(kind, msg) ==
    IF kind = "document" THEN <<"unexpected", <<>>>>
    ELSE <<"error", <<msg>>>>


(***************************************************************************)
(* get_immich_status, the commands and handle_message.                     *)
(***************************************************************************)
\* GET /server/ping as get_immich_status sees it: a status, or the message
\* of the exception raised.
StatusPingResults == {"200", "503"} \cup ExcMsgs

\* Bodies of the GET /users/me response: a JSON object of an administrator,
\* of another user, without name; JSON that is no object; text that is no
\* JSON.
UserBodies ==
    {"{name:Ann,isAdmin:true}", "{name:Ann}", "{}", "[]", "<html>"}

UserResults ==
    [status : {"200"}, body : UserBodies, raises : {"no"}]
        \cup [status : {"401"}, body : {"{message:unauthorized}"}, raises : {"no"}]
        \cup [status : {"0"}, body : {""}, raises : ExcMsgs]

\* No identity was requested.
NoLookup == [status |-> "0", body |-> "", raises |-> "none"]

\* UserInfoUncaught: a lookup without the except clause of line 194: the
\* AttributeError of a JSON body that is no object leaves the inner try.
UserInfoUncaught(user) ==
    IF user.raises # "no" THEN <<"raised", user.raises>>
    ELSE IF user.status # "200" THEN <<"could_not_retrieve", user.status>>
    ELSE IF user.body = "<html>" THEN <<"invalid_response">>
    ELSE IF user.body = "[]" THEN <<"raised", "AttributeError">>
    ELSE IF user.body = "{name:Ann,isAdmin:true}" THEN <<"name", "Ann", "[Admin]">>
    ELSE IF user.body = "{name:Ann}" THEN <<"name", "Ann", "">>
    ELSE <<"name", "Unknown", "">>

\* Lines 173-196: user_info after the lookup of the identity.
\* user_response.json() raises ValueError on text that is no JSON (caught
\* at line 185); user_data.get raises AttributeError on JSON that is no
\* object, which, like an exception of requests.get, is caught at line 194.
UserInfo(user) ==
    IF user.raises # "no" THEN <<"could_not_retrieve">>
    ELSE IF user.status # "200" THEN <<"could_not_retrieve", user.status>>
    ELSE IF user.body = "<html>" THEN <<"invalid_response">>
    ELSE IF user.body = "[]" THEN <<"could_not_retrieve">>
    ELSE IF user.body = "{name:Ann,isAdmin:true}" THEN <<"name", "Ann", "[Admin]">>
    ELSE IF user.body = "{name:Ann}" THEN <<"name", "Ann", "">>
    ELSE <<"name", "Unknown", "">>

\* get_immich_status(): the pair it returns and the requests it made.  An
\* exception that leaves the inner try is caught at line 200 and turns the
\* status into "Connection failed".
get_immich_status(ping, user) ==
    IF ping = "200"
    THEN IF UserInfo(user)[1] = "raised"
         THEN [immich_status |-> <<"connection_failed", UserInfo(user)[2]>>,
               user_info |-> <<"unknown_user">>,
               requests |-> <<"ping", "users_me">>]
         ELSE [immich_status |-> <<"connected">>, user_info |-> UserInfo(user),
               requests |-> <<"ping", "users_me">>]
    ELSE IF ping \in ExcMsgs
    THEN [immich_status |-> <<"connection_failed", ping>>,
          user_info |-> <<"unknown_user">>, requests |-> <<"ping">>]
    ELSE [immich_status |-> <<"ping_failed", ping>>,
          user_info |-> <<"unknown_user">>, requests |-> <<"ping">>]

\* HelpTextWithoutIdentity: a help message without the "Logged in as" line.
HelpTextWithoutIdentity(status) == <<"help", <<status.immich_status>>>>

\* Lines 259-268: the help message.
HelpText(status) == <<"help", <<status.immich_status, status.user_info>>>>

\* NeedsStatusAlways: every command asks for the status of the server.
NeedsStatusAlways(kind) == TRUE

\* The commands whose handler calls get_immich_status: help_command, and
\* start, which calls help_command.
NeedsStatus(kind) == kind \in {"start", "help"}

\* The reply of version and files.
CommandText(kind) == <<kind, <<>>>>

\* MessageReplyConnected: a reply that always reports a connection.
MessageReplyConnected(connected) == <<"connected", <<>>>>

\* Lines 525-528: the reply of handle_message.
MessageReply(connected) ==
    IF connected THEN <<"connected", <<>>>> ELSE <<"cannot_connect", <<>>>>

(***************************************************************************)
(* State.                                                                  *)
(***************************************************************************)
VARIABLES
    gateway,    \* whether TELEGRAM_API_URL is set in the process environment
                \* (bot.py does not read it)
    ev,         \* ev[t]: the update task t handles
    pc,         \* pc[t]: the await task t is suspended at, or how it ended
    tmp,        \* tmp[t]: the local temp_file_path, Unbound before assignment
    pend,       \* pend[t]: the reply_text call task t is awaiting
    exc,        \* exc[t]: the exception that left the handler, if one did
    steps,      \* steps[t]: the steps the handler has taken, in order
    ping,       \* ping[t]: the result of the handler's GET /server/ping
    response,   \* response[t]: the result of the handler's POST /assets
    replies,    \* replies[t]: the reply_text calls made, in order, each
                \* with its result
    wrote,      \* wrote[t]: the download of this run put a file at tmp[t]
    uploaded,   \* uploaded[t]: the task whose bytes this run POSTed, 0 if none
    created_at, \* created_at[t]: the fileCreatedAt sent with the POST
    fs          \* the files under /tmp

handlerVars == <<gateway, ev, pc, tmp, pend, exc, steps, ping, response,
                 replies, wrote, uploaded, created_at, fs>>

vars == <<handlerVars, moduleVars>>

NoReply == <<"none", <<>>>>

NoResponse == [status |-> 0, body |-> "", raises |-> "none"]

\* No update has been taken up.
HandlersIdle ==
    /\ ev = [t \in Tasks |-> NoEvent]
    /\ pc = [t \in Tasks |-> "idle"]
    /\ tmp = [t \in Tasks |-> Unbound]
    /\ pend = [t \in Tasks |-> NoReply]
    /\ exc = [t \in Tasks |-> "none"]
    /\ steps = [t \in Tasks |-> <<>>]
    /\ ping = [t \in Tasks |-> "none"]
    /\ response = [t \in Tasks |-> NoResponse]
    /\ replies = [t \in Tasks |-> <<>>]
    /\ wrote = [t \in Tasks |-> FALSE]
    /\ uploaded = [t \in Tasks |-> 0]
    /\ created_at = [t \in Tasks |-> None]
    /\ fs = EmptyFs

\* The bot is running: bot.py was loaded under RunEnv.
Init ==
    /\ gateway \in BOOLEAN
    /\ environ = RunEnv
    /\ config = LoadConfig(RunEnv)
    /\ call = NoCall
    /\ HandlersIdle

\* requests.get and requests.post do not return to the event loop: while a
\* handler is inside one of them nothing else runs in the process.
BlockedStates ==
    {"ping_wait", "post_wait", "status_wait", "user_wait", "message_wait"}

LoopFree == \A u \in Tasks : pc[u] \notin BlockedStates

\* The file type a handler passes to upload_to_immich.
HandlerFileType(e) ==
    CASE e.kind = "document" -> get_file_type(FileName(e))
      [] e.kind = "photo" -> "image"
      [] e.kind = "video" -> "video"

(***************************************************************************)
(* The dispatcher (Application.run_polling with the handlers of main).     *)
(***************************************************************************)
Receive(t, e) ==
    /\ pc[t] = "idle"
    /\ LoopFree
    /\ ev' = [ev EXCEPT ![t] = e]
    /\ pc' = [pc EXCEPT ![t] = "start"]
    /\ UNCHANGED <<gateway, tmp, pend, exc, steps, ping, response, replies,
                   wrote, uploaded, created_at, fs, moduleVars>>

\* One update at a time: the application is built without
\* concurrent_updates, so the next update is taken up when the handler of
\* the previous one has ended.
DispatchNext(t) ==
    /\ \A u \in Tasks : pc[u] = "idle"
    /\ \E e \in Events : Receive(t, e)

\* Updates taken up while other handlers are suspended at an await.
DispatchConcurrent(t) ==
    \E e \in ConcEvents : Receive(t, e)

\* The handler's coroutine has ended and is dropped.
Reap(t) ==
    /\ pc[t] \in {"done", "raised"}
    /\ LoopFree
    /\ ev' = [ev EXCEPT ![t] = NoEvent]
    /\ pc' = [pc EXCEPT ![t] = "idle"]
    /\ tmp' = [tmp EXCEPT ![t] = Unbound]
    /\ pend' = [pend EXCEPT ![t] = NoReply]
    /\ exc' = [exc EXCEPT ![t] = "none"]
    /\ steps' = [steps EXCEPT ![t] = <<>>]
    /\ ping' = [ping EXCEPT ![t] = "none"]
    /\ response' = [response EXCEPT ![t] = NoResponse]
    /\ replies' = [replies EXCEPT ![t] = <<>>]
    /\ wrote' = [wrote EXCEPT ![t] = FALSE]
    /\ uploaded' = [uploaded EXCEPT ![t] = 0]
    /\ created_at' = [created_at EXCEPT ![t] = None]
    /\ UNCHANGED <<gateway, fs, moduleVars>>

(***************************************************************************)
(* handle_document, handle_photo, handle_video.                            *)
(***************************************************************************)
\* The handler is entered and issues GET /server/ping
\* (check_immich_connection, the first statement of each handler).
Start(t) ==
    /\ pc[t] = "start"
    /\ ev[t].kind \in {"document", "photo", "video"}
    /\ LoopFree
    /\ pc' = [pc EXCEPT ![t] = "ping_wait"]
    /\ steps' = [steps EXCEPT ![t] = @ \o <<"ping">>]
    /\ UNCHANGED <<gateway, ev, tmp, pend, exc, ping, response, replies, wrote,
                   uploaded, created_at, fs, moduleVars>>

\* requests.get returns or raises, and the handler runs on to its first
\* await: the connection check, then the permission check.  In
\* handle_document the permission check is inside the try whose finally
\* clause reads temp_file_path, which is assigned only after the check:
\* the early return raises UnboundLocalError.
Pinged(t) ==
    /\ pc[t] = "ping_wait"
    /\ \E r \in PingResults :
         LET e == ev[t] IN
         /\ ping' = [ping EXCEPT ![t] = r]
         /\ IF ~check_immich_connection(r)
            THEN /\ pc' = [pc EXCEPT ![t] = "reply_conn"]
                 /\ pend' = [pend EXCEPT ![t] = <<"cannot_connect", <<>>>>]
                 /\ UNCHANGED <<tmp, exc, steps>>
            ELSE IF ~is_user_allowed(e.user)
            THEN /\ pc' = [pc EXCEPT ![t] =
                               IF e.kind = "document" THEN "raised" ELSE "done"]
                 /\ exc' = [exc EXCEPT ![t] =
                               IF e.kind = "document" THEN "UnboundLocalError"
                               ELSE "none"]
                 /\ steps' = [steps EXCEPT ![t] = @ \o <<"permission">>]
                 /\ UNCHANGED <<tmp, pend>>
            ELSE /\ pc' = [pc EXCEPT ![t] = "get_file"]
                 /\ tmp' = [tmp EXCEPT ![t] = temp_file_path(e.file_id, FileName(e))]
                 /\ steps' = [steps EXCEPT ![t] = @ \o <<"permission">>]
                 /\ UNCHANGED <<pend, exc>>
    /\ UNCHANGED <<gateway, ev, response, replies, wrote, uploaded,
                   created_at, fs, moduleVars>>

\* await context.bot.get_file(file_id) completes.
GetFile(t) ==
    /\ pc[t] = "get_file"
    /\ LoopFree
    /\ \E r \in GetFileResults :
         IF r = "ok"
         THEN /\ pc' = [pc EXCEPT ![t] = "download"]
              /\ UNCHANGED pend
         ELSE /\ pc' = [pc EXCEPT ![t] = "reply_exc"]
              /\ pend' = [pend EXCEPT ![t] = ExceptReply(ev[t].kind, r)]
    /\ steps' = [steps EXCEPT ![t] = @ \o <<"get_file">>]
    /\ UNCHANGED <<gateway, ev, tmp, exc, ping, response, replies, wrote,
                   uploaded, created_at, fs, moduleVars>>

\* await file.download_to_drive(temp_file_path) completes; the handler runs
\* on through the existence check, the classification and upload_to_immich
\* (metadata, checksum) to the POST it issues or to the reply it awaits
\* next.
Download(t) ==
    /\ pc[t] = "download"
    /\ LoopFree
    /\ \E dl \in DownloadResults :
         LET e    == ev[t]
             p    == tmp[t]
             f1   == IF dl.written THEN WriteFile(fs, p, t) ELSE fs
             ft   == HandlerFileType(e)
             classify == IF e.kind = "document" THEN <<"classify">> ELSE <<>>
             branch == AfterDownload(Exists(f1, p), ft)
         IN
         /\ fs' = f1
         /\ wrote' = [wrote EXCEPT ![t] = dl.written]
         /\ IF dl.raises # "no"
            THEN /\ pc' = [pc EXCEPT ![t] = "reply_exc"]
                 /\ pend' = [pend EXCEPT ![t] = ExceptReply(e.kind, dl.raises)]
                 /\ steps' = [steps EXCEPT ![t] = @ \o <<"download">>]
                 /\ UNCHANGED <<uploaded, created_at>>
            ELSE IF branch = "download_failed"
            THEN /\ pc' = [pc EXCEPT ![t] = "reply_dlfail"]
                 /\ pend' = [pend EXCEPT ![t] = <<"download_failed", <<e.kind>>>>]
                 /\ steps' = [steps EXCEPT ![t] = @ \o <<"download", "exists">>]
                 /\ UNCHANGED <<uploaded, created_at>>
            ELSE IF branch = "raise"
            THEN /\ pc' = [pc EXCEPT ![t] = "reply_exc"]
                 /\ pend' = [pend EXCEPT ![t] = ExceptReply(e.kind, ft)]
                 /\ steps' = [steps EXCEPT ![t] =
                                 @ \o <<"download", "exists">> \o classify]
                 /\ UNCHANGED <<uploaded, created_at>>
            ELSE IF branch = "unsupported"
            THEN /\ pc' = [pc EXCEPT ![t] = "reply_unsupported"]
                 /\ pend' = [pend EXCEPT ![t] = <<"unsupported", <<>>>>]
                 /\ steps' = [steps EXCEPT ![t] =
                                 @ \o <<"download", "exists">> \o classify]
                 /\ UNCHANGED <<uploaded, created_at>>
            ELSE \E rd \in ReadResults :
                   LET u == UploadSync(ft, MessageDate(e),
                                       Extract(ft, e.content), rd) IN
                   /\ pc' = [pc EXCEPT ![t] = u.pc]
                   /\ pend' = [pend EXCEPT ![t] = u.pend]
                   /\ steps' = [steps EXCEPT ![t] =
                                   @ \o <<"download", "exists">> \o classify
                                     \o u.steps]
                   /\ uploaded' = [uploaded EXCEPT ![t] =
                                      IF u.pc = "post_wait" /\ Exists(f1, p)
                                      THEN f1[p] ELSE 0]
                   /\ created_at' = [created_at EXCEPT ![t] = u.created_at]
    /\ UNCHANGED <<gateway, ev, tmp, exc, ping, response, replies, moduleVars>>

\* requests.post returns or raises, and upload_to_immich runs on to the
\* reply it awaits.
Posted(t) ==
    /\ pc[t] = "post_wait"
    /\ \E post \in PostResults :
         LET u == UploadResponse(HandlerFileType(ev[t]), post) IN
         /\ response' = [response EXCEPT ![t] = post]
         /\ pc' = [pc EXCEPT ![t] = u.pc]
         /\ pend' = [pend EXCEPT ![t] = u.pend]
         /\ steps' = [steps EXCEPT ![t] = @ \o RetrySteps(post)]
    /\ UNCHANGED <<gateway, ev, tmp, exc, ping, replies, wrote, uploaded,
                   created_at, fs, moduleVars>>

\* A command handler is entered: version and files go to their reply,
\* help_command and start issue the GET /server/ping of get_immich_status.
Command(t) ==
    /\ pc[t] = "start"
    /\ ev[t].kind \in Commands
    /\ LoopFree
    /\ IF NeedsStatus(ev[t].kind)
       THEN /\ pc' = [pc EXCEPT ![t] = "status_wait"]
            /\ steps' = [steps EXCEPT ![t] = @ \o <<"ping">>]
            /\ UNCHANGED pend
       ELSE /\ pc' = [pc EXCEPT ![t] = "reply_cmd"]
            /\ pend' = [pend EXCEPT ![t] = CommandText(ev[t].kind)]
            /\ UNCHANGED steps
    /\ UNCHANGED <<gateway, ev, tmp, exc, ping, response, replies, wrote,
                   uploaded, created_at, fs, moduleVars>>

\* The ping of get_immich_status returns or raises: after a 200 the
\* identity is requested, otherwise help_command goes to its reply.
StatusPinged(t) ==
    /\ pc[t] = "status_wait"
    /\ \E r \in StatusPingResults :
         /\ ping' = [ping EXCEPT ![t] = r]
         /\ IF r = "200"
            THEN /\ pc' = [pc EXCEPT ![t] = "user_wait"]
                 /\ steps' = [steps EXCEPT ![t] = @ \o <<"users_me">>]
                 /\ UNCHANGED pend
            ELSE /\ pc' = [pc EXCEPT ![t] = "reply_cmd"]
                 /\ pend' = [pend EXCEPT ![t] =
                                  HelpText(get_immich_status(r, NoLookup))]
                 /\ UNCHANGED steps
    /\ UNCHANGED <<gateway, ev, tmp, exc, response, replies, wrote, uploaded,
                   created_at, fs, moduleVars>>

\* GET /users/me returns or raises, and help_command goes to its reply.
UserLookedUp(t) ==
    /\ pc[t] = "user_wait"
    /\ \E user \in UserResults :
         pend' = [pend EXCEPT ![t] = HelpText(get_immich_status(ping[t], user))]
    /\ pc' = [pc EXCEPT ![t] = "reply_cmd"]
    /\ UNCHANGED <<gateway, ev, tmp, exc, steps, ping, response, replies,
                   wrote, uploaded, created_at, fs, moduleVars>>

\* handle_message is entered: the permission check, then the GET
\* /server/ping of check_immich_connection.
Message(t) ==
    /\ pc[t] = "start"
    /\ ev[t].kind = "text"
    /\ LoopFree
    /\ IF ~is_user_allowed(ev[t].user)
       THEN /\ pc' = [pc EXCEPT ![t] = "done"]
            /\ steps' = [steps EXCEPT ![t] = @ \o <<"permission">>]
       ELSE /\ pc' = [pc EXCEPT ![t] = "message_wait"]
            /\ steps' = [steps EXCEPT ![t] = @ \o <<"permission", "ping">>]
    /\ UNCHANGED <<gateway, ev, tmp, pend, exc, ping, response, replies, wrote,
                   uploaded, created_at, fs, moduleVars>>

\* The ping of handle_message returns or raises.
MessagePinged(t) ==
    /\ pc[t] = "message_wait"
    /\ \E r \in PingResults :
         /\ ping' = [ping EXCEPT ![t] = r]
         /\ pend' = [pend EXCEPT ![t] = MessageReply(check_immich_connection(r))]
    /\ pc' = [pc EXCEPT ![t] = "reply_msg"]
    /\ UNCHANGED <<gateway, ev, tmp, exc, steps, response, replies, wrote,
                   uploaded, created_at, fs, moduleVars>>

\* await update.message.reply_text(...) completes, and the handler runs on:
\* to its end (through the finally clause when the reply was sent inside
\* the try) or to the reply of the except clause that catches the failure.
Reply(t) ==
    /\ pc[t] \in {"reply_conn", "reply_dlfail", "reply_unsupported",
                  "reply_result", "reply_upload_err", "reply_exc",
                  "reply_cmd", "reply_msg"}
    /\ LoopFree
    /\ \E r \in ReplyResults :
         /\ replies' = [replies EXCEPT ![t] =
                            Append(@, [text |-> pend[t], result |-> r])]
         /\ CASE pc[t] \in {"reply_conn", "reply_cmd", "reply_msg"} ->
                   \* outside the try: no finally clause
                   /\ pc' = [pc EXCEPT ![t] = IF r = "ok" THEN "done" ELSE "raised"]
                   /\ exc' = [exc EXCEPT ![t] = IF r = "ok" THEN "none" ELSE r]
                   /\ pend' = [pend EXCEPT ![t] = NoReply]
                   /\ UNCHANGED <<steps, fs>>
              [] pc[t] = "reply_exc" ->
                   \* in the handler's except clause: the finally clause
                   \* runs, then the failure of the reply leaves the handler
                   /\ pc' = [pc EXCEPT ![t] = IF r = "ok" THEN "done" ELSE "raised"]
                   /\ exc' = [exc EXCEPT ![t] = IF r = "ok" THEN "none" ELSE r]
                   /\ pend' = [pend EXCEPT ![t] = NoReply]
                   /\ steps' = [steps EXCEPT ![t] = @ \o <<"cleanup">>]
                   /\ fs' = Finally(fs, tmp[t])
              [] pc[t] = "reply_result" /\ r # "ok" ->
                   \* caught by the except clause of upload_to_immich
                   /\ pc' = [pc EXCEPT ![t] = "reply_upload_err"]
                   /\ pend' = [pend EXCEPT ![t] = <<"upload_error", <<r>>>>]
                   /\ UNCHANGED <<exc, steps, fs>>
              [] pc[t] \in {"reply_dlfail", "reply_unsupported", "reply_upload_err"}
                   /\ r # "ok" ->
                   \* caught by the except clause of the handler
                   /\ pc' = [pc EXCEPT ![t] = "reply_exc"]
                   /\ pend' = [pend EXCEPT ![t] = ExceptReply(ev[t].kind, r)]
                   /\ UNCHANGED <<exc, steps, fs>>
              [] pc[t] \in {"reply_dlfail", "reply_unsupported", "reply_result",
                            "reply_upload_err"} /\ r = "ok" ->
                   \* the handler returns through its finally clause
                   /\ pc' = [pc EXCEPT ![t] = "done"]
                   /\ pend' = [pend EXCEPT ![t] = NoReply]
                   /\ steps' = [steps EXCEPT ![t] = @ \o <<"cleanup">>]
                   /\ fs' = Finally(fs, tmp[t])
                   /\ UNCHANGED exc
    /\ UNCHANGED <<gateway, ev, tmp, ping, response, wrote, uploaded,
                   created_at, moduleVars>>

(***************************************************************************)
(* Specifications.                                                         *)
(***************************************************************************)
Step(t) ==
    \/ Start(t) \/ Pinged(t) \/ GetFile(t) \/ Download(t) \/ Posted(t)
    \/ Command(t) \/ StatusPinged(t) \/ UserLookedUp(t)
    \/ Message(t) \/ MessagePinged(t)
    \/ Reply(t) \/ Reap(t)

Next == \E t \in Tasks : DispatchNext(t) \/ Step(t)

Spec == Init /\ [][Next]_vars

\* The dispatcher of concurrently handled updates.
ConcInit == Init /\ gateway = FALSE

ConcNext == \E t \in Tasks : DispatchConcurrent(t) \/ Step(t)

ConcSpec == ConcInit /\ [][ConcNext]_vars

(***************************************************************************)
(* Loading the module and calling its functions directly.                  *)
(***************************************************************************)
\* A process is started under some environment; bot.py is not loaded yet.
ModuleInit ==
    /\ gateway = FALSE
    /\ environ \in Environs
    /\ config = NotLoaded
    /\ call = NoCall
    /\ HandlersIdle

\* import app.bot / python bot.py: the module level is executed.
Load ==
    /\ config.state = "not loaded"
    /\ config' = LoadConfig(environ)
    /\ UNCHANGED <<environ, call, handlerVars>>

\* is_user_allowed(user_id)
CallIsUserAllowed ==
    /\ config.state = "loaded"
    /\ \E user_id \in Users \cup {3} :
         call' = [fn |-> "is_user_allowed", args |-> <<user_id>>,
                  out |-> <<is_user_allowed(user_id), AllowedBranch(user_id)>>]
    /\ UNCHANGED <<environ, config, handlerVars>>

\* The MIME types mimetypes.guess_type can give for a name: its table is
\* read from the host's files.
MimeHints == {"none", "image/", "video/", "text/"}

\* get_file_type(file_path) under any table of MIME types.
CallGetFileType ==
    /\ config.state = "loaded"
    /\ \E name \in DocNames \cup VideoNames, mime_type \in MimeHints :
         call' = [fn |-> "get_file_type", args |-> <<name, mime_type>>,
                  out |-> <<Classify(Lower(SplitExt(name)), mime_type)>>]
    /\ UNCHANGED <<environ, config, handlerVars>>

\* upload_to_immich(file_path, file_type, update, message_date) up to the
\* fileCreatedAt it puts into the POST, for a message with the given
\* forward_date and date (a message built by hand may have neither).
CallUploadToImmich ==
    /\ config.state = "loaded"
    /\ \E file_type \in {"image", "video"}, forward_date \in ForwardDates,
          date \in {None, <<"T_date">>} :
         \E content \in Contents(file_type) :
           call' = [fn |-> "upload_to_immich",
                    args |-> <<file_type, content, forward_date, date>>,
                    out |-> <<FileCreatedAt(Extract(file_type, content),
                                            ForwardOrDate(forward_date, date))>>]
    /\ UNCHANGED <<environ, config, handlerVars>>

\* get_immich_status() against a server that answers the ping and the
\* lookup of the identity in any way.
CallGetImmichStatus ==
    /\ config.state = "loaded"
    /\ \E p \in StatusPingResults, user \in UserResults :
         LET s == get_immich_status(p, user) IN
         call' = [fn |-> "get_immich_status", args |-> <<p, user>>,
                  out |-> <<s.immich_status, s.user_info, s.requests>>]
    /\ UNCHANGED <<environ, config, handlerVars>>

ModuleNext ==
    \/ Load \/ CallIsUserAllowed \/ CallGetFileType \/ CallUploadToImmich
    \/ CallGetImmichStatus

ModuleSpec == ModuleInit /\ [][ModuleNext]_vars


(***************************************************************************)
(* Properties.                                                             *)
(***************************************************************************)
Ended(t) == pc[t] \in {"done", "raised"}

Handling(t) == pc[t] # "idle"

Allowed(t) == ev[t].user \in ALLOWED_USER_IDS

Media(t) == ev[t].kind \in {"document", "photo", "video"}

\* The texts of the reply_text calls made so far.
Texts(t) == [i \in DOMAIN replies[t] |-> replies[t][i].text]

\* The reply_text calls made or being awaited.
Calls(t) == IF pend[t] = NoReply THEN Texts(t) ELSE Append(Texts(t), pend[t])

Took(t, step) == \E i \in DOMAIN steps[t] : steps[t][i] = step

Times(t, step) == Cardinality({i \in DOMAIN steps[t] : steps[t][i] = step})

PingFailed(t) == ping[t] \notin {"none", "200"}

\* C1: a document, photo or video event whose sender is not in the
\* allow-list gets no reply and no temporary file, whatever the ping
\* returns.
C1_UnauthorizedSilent ==
    \A t \in Tasks :
        (Handling(t) /\ Media(t) /\ ~Allowed(t)) =>
            (Calls(t) = <<>> /\ ~wrote[t] /\ ~Exists(fs, tmp[t]))

\* C2: when a handler that created a temporary file has ended, by
\* returning or by raising, whatever the outcome was, the file no longer
\* exists.
C2_TempFileRemoved ==
    \A t \in Tasks :
        (Ended(t) /\ wrote[t]) => ~Exists(fs, tmp[t])

\* A handler created its file, the reply in its except clause failed, the
\* exception left the handler, and the file is gone.
C2_Witness ==
    \E t \in Tasks :
        /\ pc[t] = "raised" /\ wrote[t] /\ Took(t, "cleanup")
        /\ ~Exists(fs, tmp[t])

\* C3: no run of a document, photo or video handler ends by raising an
\* exception to the dispatcher.
C3_NeverRaises ==
    \A t \in Tasks : Media(t) => pc[t] # "raised"

\* C4: between the end of its own download and its own cleanup, the file
\* of a task exists with the content that task downloaded, and the bytes a
\* task uploads are the bytes it downloaded.
C4_OwnFileUntouched ==
    \A t \in Tasks :
        /\ (Handling(t) /\ ~Ended(t) /\ wrote[t]) =>
               (Exists(fs, tmp[t]) /\ fs[tmp[t]] = t)
        /\ uploaded[t] \in {0, t}

\* The maximum accepted video size of C5 and C6.
MaxFileSizeClaimed == IF gateway THEN 2000 * 1024 * 1024 ELSE 20 * 1024 * 1024

Oversized(t) == ev[t].kind = "video" /\ ev[t].file_size > MaxFileSizeClaimed

\* C5: a video from an allowed sender, the server reachable, whose declared
\* size exceeds the maximum: exactly one reply, naming the limit, no
\* get_file, no download_to_drive, no temporary file.
C5_OversizedRejected ==
    \A t \in Tasks :
        (Handling(t) /\ Oversized(t) /\ Allowed(t) /\ ping[t] = "200") =>
            /\ ~Took(t, "get_file") /\ ~Took(t, "download") /\ ~wrote[t]
            /\ Ended(t) => Texts(t) = << <<"too_big", <<MaxFileSizeClaimed>>>> >>

\* C6: the maximum is 20 MiB without the gateway and 2000 MiB with it: no
\* video above it is fetched, and with the gateway a video between the two
\* limits is fetched once and, the fetch succeeding, downloaded once.
C6_SizeLimitByGateway ==
    \A t \in Tasks :
        /\ Oversized(t) => ~Took(t, "get_file")
        /\ ( /\ Ended(t) /\ ev[t].kind = "video" /\ gateway
             /\ ev[t].file_size > 20 * 1024 * 1024
             /\ ev[t].file_size <= 2000 * 1024 * 1024
             /\ Allowed(t) /\ ping[t] = "200" ) =>
               /\ Times(t, "get_file") = 1
               /\ Times(t, "download") <= 1
               /\ \A i \in DOMAIN Texts(t) : Texts(t)[i][1] # "too_big"

\* C7: an event from an allowed sender whose ping did not succeed: exactly
\* one connection-error reply, then the handler ends; no get_file, no
\* download, no temporary file, no POST.
C7_PingFailureShortCircuits ==
    \A t \in Tasks :
        (Handling(t) /\ Media(t) /\ Allowed(t) /\ PingFailed(t)) =>
            /\ steps[t] = <<"ping">>
            /\ Calls(t) = << <<"cannot_connect", <<>>>> >>
            /\ pc[t] \in {"reply_conn", "done", "raised"}
            /\ ~wrote[t] /\ tmp[t] = Unbound /\ DOMAIN fs = {}
            /\ uploaded[t] = 0 /\ response[t] = NoResponse

C7_Witness ==
    \E t \in Tasks :
        /\ Media(t) /\ Allowed(t) /\ PingFailed(t) /\ pc[t] = "done"
        /\ Texts(t) = << <<"cannot_connect", <<>>>> >>

\* The order of steps C8 states.
ClaimedRank(step) ==
    CASE step = "permission" -> 1
      [] step = "ping" -> 2
      [] step = "get_file" -> 3
      [] step = "download" -> 4
      [] step = "exists" -> 5
      [] step = "classify" -> 6
      [] step = "metadata" -> 7
      [] step = "checksum" -> 8
      [] step = "post" -> 9
      [] step = "cleanup" -> 10

\* C8: the steps of a document, photo or video handler occur in the order
\* permission check, ping, download, classification, metadata, checksum,
\* POST, cleanup, and no ping is sent for a sender who is not allowed.
C8_PermissionBeforePing ==
    \A t \in Tasks :
        Media(t) =>
            /\ \A i, j \in DOMAIN steps[t] :
                   i < j => ClaimedRank(steps[t][i]) < ClaimedRank(steps[t][j])
            /\ (Handling(t) /\ ~Allowed(t)) => ~Took(t, "ping")

\* The reply C9 states for a response.
ClaimedReply(file_type, status, body) ==
    IF status = 201 THEN <<"uploaded", <<file_type>>>>
    ELSE IF status = 200 /\ body = "{status:duplicate}"
    THEN <<"duplicate", <<file_type>>>>
    ELSE IF status = 200 THEN <<"uploaded", <<file_type>>>>
    ELSE <<"upload_failed", <<file_type, body>>>>

FileType(t) ==
    CASE ev[t].kind = "document" -> get_file_type(FileName(ev[t]))
      [] ev[t].kind = "photo" -> "image"
      [] ev[t].kind = "video" -> "video"

\* C9: whatever the body of the response, the reply upload_to_immich sends
\* for it is: 201, success; 200 with status duplicate, already exists; any
\* other 200, success; any other status, failure with the body text.
C9_ResponseMapping ==
    \A t \in Tasks :
        response[t].raises = "no" =>
            Calls(t)[1] = ClaimedReply(FileType(t), response[t].status,
                                       response[t].body)

IsDuplicate(t) ==
    /\ response[t].raises = "no" /\ response[t].status = 200
    /\ response[t].body = "{status:duplicate}"

Embedded(file_type, content) ==
    IF file_type = "image"
    THEN IF content.fmt # "image" THEN None
         ELSE IF content.original = "valid" THEN <<"T_original">>
         ELSE IF content.original = "absent" /\ content.modified = "valid"
         THEN <<"T_modified">>
         ELSE None
    ELSE IF content.fmt = "video" /\ content.video = "creation_date"
         THEN <<"T_creation">>
         ELSE None

\* C11: the fileCreatedAt sent to the server is the embedded date whenever
\* there is one, also when the message has a timestamp; otherwise the
\* forwarded timestamp if the message was forwarded, else the receipt
\* timestamp; otherwise the current time.  A lower tier is used only when
\* every higher tier yielded nothing.
C11_CreatedAtFallback ==
    call.fn = "upload_to_immich" =>
        LET embedded     == Embedded(call.args[1], call.args[2])
            forward_date == call.args[3]
            date         == call.args[4]
            sent         == call.out[1]
        IN  /\ embedded # None => sent = embedded
            /\ embedded = None /\ forward_date # None => sent = forward_date
            /\ embedded = None /\ forward_date = None /\ date # None =>
                   sent = date
            /\ embedded = None /\ forward_date = None /\ date = None =>
                   sent = <<"T_now">>
            /\ sent \in {<<"T_forward">>, <<"T_date">>} => embedded = None
            /\ sent = <<"T_date">> => forward_date = None
            /\ sent = <<"T_now">> =>
                   embedded = None /\ forward_date = None /\ date = None

\* An image without original-capture field whose modified field is used
\* although the message was forwarded.
C11_Witness ==
    /\ call.fn = "upload_to_immich"
    /\ call.args[1] = "image"
    /\ call.args[2].original = "absent" /\ call.args[2].modified = "valid"
    /\ call.args[3] = <<"T_forward">> /\ call.args[4] = <<"T_date">>
    /\ call.out = << <<"T_modified">> >>

(***************************************************************************)
(* Failure of the metadata extraction.                                     *)
(***************************************************************************)
\* The handler has run the extraction and it gave no date.
MetadataFailed(t) ==
    /\ Took(t, "metadata")
    /\ Embedded(HandlerFileType(ev[t]), ev[t].content) = None

\* A reply that reports the exception of a failed extraction.
ReportsMetadataFailure(text) ==
    /\ text[1] \in {"upload_error", "error", "unexpected"}
    /\ text[2] # <<>>
    /\ text[2][1] \in {"Could not extract metadata",
                       "cannot unpack non-iterable NoneType object"}

\* The reading of the file for the checksum raised.
ChecksumRaised(t) ==
    \E i \in DOMAIN Calls(t) : Calls(t)[i] = <<"upload_error", <<"OSError">>>>

SameButMessage(t, u) ==
    /\ ev[t] = ev[u] /\ steps[t] = steps[u] /\ ping[t] = ping[u]
    /\ wrote[t] = wrote[u] /\ created_at[t] = created_at[u]
    /\ response[t].status = response[u].status
    /\ response[t].body = response[u].body
    /\ (response[t].raises \in ExcMsgs) = (response[u].raises \in ExcMsgs)
    /\ Len(replies[t]) = Len(replies[u])
    /\ \A i \in DOMAIN replies[t] : replies[t][i].result = replies[u][i].result

\* C13: the reply to an unexpected exception raised in the body of a
\* document, photo or video handler or in upload_to_immich is a fixed
\* text: two runs that differ only in the message of the exception send
\* the same replies.
C13_GenericErrorReply ==
    \A t, u \in Tasks :
        /\ Media(t) /\ Media(u)
        /\ Ended(t) /\ Ended(u) /\ SameButMessage(t, u)
        => Texts(t) = Texts(u)

(***************************************************************************)
(* No retry.                                                               *)
(***************************************************************************)
NetworkSteps == {"ping", "get_file", "download", "post"}

\* The last request the handler made is the given one.
LastRequest(t, step) ==
    /\ Took(t, step)
    /\ \A i, j \in DOMAIN steps[t] :
           steps[t][i] = step /\ i < j => steps[t][j] \notin NetworkSteps

PostFailed(t) ==
    \/ response[t].raises \in ExcMsgs
    \/ response[t].raises = "no" /\ response[t].status \notin {200, 201}

\* C14: nothing is retried: for each document, photo or video event there
\* is at most one ping, one download and one POST, and after a failed
\* ping, a network error or a response that is not 2xx no further request
\* is made and the first reply reports that outcome.
C14_NoRetry ==
    \A t \in Tasks :
        /\ \A step \in NetworkSteps : Times(t, step) <= 1
        /\ Media(t) /\ PingFailed(t) =>
               /\ LastRequest(t, "ping")
               /\ Calls(t)[1] = <<"cannot_connect", <<>>>>
        /\ PostFailed(t) =>
               /\ LastRequest(t, "post")
               /\ Calls(t)[1] =
                      IF response[t].raises \in ExcMsgs
                      THEN <<"upload_error", <<response[t].raises>>>>
                      ELSE <<"upload_failed",
                             <<HandlerFileType(ev[t]), response[t].body>>>>

\* A handler that ended after a 500 response to its only POST.
C14_Witness ==
    \E t \in Tasks :
        /\ pc[t] = "done" /\ response[t].status = 500
        /\ Times(t, "post") = 1
        /\ Texts(t)[1][1] = "upload_failed"

(***************************************************************************)
(* Startup.                                                                *)
(***************************************************************************)
\* A setting is provided: it is set and not empty.
Provided(value) == value # None /\ value # <<>>

\* C15: whatever combination of unset, empty and set the four required
\* settings (bot token, API key, base URL, allow-list) have, startup fails
\* when at least one of them is unset or empty, and succeeds only when all
\* four are provided.
C15_StartupNeedsAllSettings ==
    config.state = "loaded" =>
        /\ Provided(environ.TELEGRAM_BOT_TOKEN)
        /\ Provided(environ.IMMICH_API_KEY)
        /\ Provided(environ.IMMICH_API_URL)
        /\ Provided(environ.ALLOWED_USER_IDS)

\* C16: after a successful startup the allow-list is not empty, also when
\* the configured value holds only separators and blanks (startup fails
\* then), so is_user_allowed(u) is the membership test for every u and its
\* allow-everyone branch is never taken.
C16_AllowListNonEmpty ==
    config.state = "loaded" =>
        /\ config.ALLOWED_USER_IDS # <<>>
        /\ call.fn = "is_user_allowed" =>
               call.out = << call.args[1] \in Range(config.ALLOWED_USER_IDS),
                             "membership" >>

\* Started with an allow-list written with blanks and an empty item;
\* is_user_allowed has refused a user that is not on it.
C16_Witness ==
    /\ config.state = "loaded"
    /\ environ.ALLOWED_USER_IDS = <<" ","1"," ",",">>
    /\ call = [fn |-> "is_user_allowed", args |-> <<2>>,
               out |-> <<FALSE, "membership">>]

(***************************************************************************)
(* Suspension of handlers.                                                 *)
(***************************************************************************)
\* The handler of an update is under way.
InFlight(t) == pc[t] \notin {"idle", "done", "raised"}

\* C17: while a task waits for its ping or its POST to complete, every
\* other task in flight is able to take its next step.
C17_OthersRunDuringRequests ==
    \A t, u \in Tasks :
        t # u /\ pc[t] \in {"ping_wait", "post_wait"} /\ InFlight(u) =>
            ENABLED Step(u)

(***************************************************************************)
(* Download failure and unsupported type.                                  *)
(***************************************************************************)
\* The number of reply_text calls of the given kind.
CallsOf(t, kind) ==
    Cardinality({i \in DOMAIN Calls(t) : Calls(t)[i][1] = kind})

\* The download call of an allowed sender's handler has returned and has
\* put no file at the temporary path.
DownloadLeftNoFile(t) ==
    /\ Allowed(t) /\ ping[t] = "200"
    /\ Took(t, "exists") /\ ~wrote[t]

\* C18: for an allowed sender with the server reachable, when no file is at
\* the temporary path once the download call has returned, the handler
\* sends exactly one download-failure reply, first of all, and ends
\* without classification, checksum or POST and without a temporary file.
C18_DownloadFailureReported ==
    \A t \in Tasks :
        DownloadLeftNoFile(t) =>
            /\ Calls(t) # <<>>
            /\ Calls(t)[1] = <<"download_failed", <<ev[t].kind>>>>
            /\ CallsOf(t, "download_failed") = 1
            /\ ~Took(t, "classify") /\ ~Took(t, "metadata")
            /\ ~Took(t, "checksum") /\ ~Took(t, "post")
            /\ ~Exists(fs, tmp[t])

\* A video handler that ended after its download-failure reply.
C18_Witness ==
    \E t \in Tasks :
        /\ DownloadLeftNoFile(t) /\ pc[t] = "done"
        /\ ev[t].kind = "video"
        /\ Texts(t) = << <<"download_failed", <<"video">>>> >>

\* The file of an allowed sender's document was downloaded and its name is
\* of no supported type.
UnsupportedDocument(t) ==
    /\ ev[t].kind = "document" /\ Allowed(t) /\ ping[t] = "200"
    /\ Took(t, "classify")
    /\ HandlerFileType(ev[t]) = "other"

\* C19: a document from an allowed sender with the server reachable whose
\* name classifies as unsupported gets exactly one unsupported-type reply,
\* first of all; no POST is made and the downloaded file is gone when the
\* handler has returned.
C19_UnsupportedRejected ==
    \A t \in Tasks :
        UnsupportedDocument(t) =>
            /\ Calls(t) # <<>>
            /\ Calls(t)[1] = <<"unsupported", <<>>>>
            /\ CallsOf(t, "unsupported") = 1
            /\ ~Took(t, "metadata") /\ ~Took(t, "checksum") /\ ~Took(t, "post")
            /\ Ended(t) => ~Exists(fs, tmp[t])

\* A handler that downloaded c.txt, replied and returned.
C19_Witness ==
    \E t \in Tasks :
        /\ UnsupportedDocument(t) /\ pc[t] = "done" /\ wrote[t]
        /\ ev[t].file_name = <<"c",".","t","x","t">>
        /\ Texts(t) = << <<"unsupported", <<>>>> >>
        /\ Took(t, "cleanup")

(***************************************************************************)
(* Classification.                                                         *)
(***************************************************************************)
\* C20: get_file_type looks at the extension before the MIME type: a name
\* with a supported image extension is an image and one with a supported
\* video extension a video whatever the MIME type is; only for another
\* extension does a video/ MIME type give video and an image/ MIME type
\* image; another extension without MIME type is unsupported.
C20_ExtensionBeforeMime ==
    call.fn = "get_file_type" =>
        LET ext       == Lower(SplitExt(call.args[1]))
            mime_type == call.args[2]
            type      == call.out[1]
        IN  /\ ext \in SUPPORTED_IMAGE_EXTENSIONS => type = "image"
            /\ ext \in SUPPORTED_VIDEO_EXTENSIONS => type = "video"
            /\ ext \notin SUPPORTED_IMAGE_EXTENSIONS \cup SUPPORTED_VIDEO_EXTENSIONS =>
                   /\ mime_type = "video/" => type = "video"
                   /\ mime_type = "image/" => type = "image"
                   /\ mime_type = "none" => type = "other"

\* a.jpg is an image although its MIME type says video.
C20_Witness ==
    call = [fn |-> "get_file_type",
            args |-> << <<"a",".","j","p","g">>, "video/" >>,
            out |-> <<"image">>]

(***************************************************************************)
(* Commands and text messages.                                             *)
(***************************************************************************)
IsCommand(t) == ev[t].kind \in Commands

\* C21: each of the commands start, help, version and files sends exactly
\* one reply and does nothing else: no download, no temporary file, no
\* POST; version and files send no request to the asset server.
C21_CommandsOnlyReply ==
    \A t \in Tasks :
        IsCommand(t) =>
            /\ Len(Calls(t)) <= 1
            /\ Ended(t) => Len(Texts(t)) = 1
            /\ \A i \in DOMAIN steps[t] : steps[t][i] \in {"ping", "users_me"}
            /\ ~wrote[t] /\ tmp[t] = Unbound /\ DOMAIN fs = {}
            /\ uploaded[t] = 0 /\ response[t] = NoResponse
            /\ ev[t].kind \in {"version", "files"} =>
                   steps[t] = <<>> /\ ping[t] = "none"

\* The version command has replied and ended without a request.
C21_Witness ==
    \E t \in Tasks :
        /\ ev[t].kind = "version" /\ pc[t] = "done"
        /\ Texts(t) = << <<"version", <<>>>> >>
        /\ steps[t] = <<>>

\* Every reply_text call of the run so far has returned normally.
RepliesDelivered(t) == \A i \in DOMAIN replies[t] : replies[t][i].result = "ok"

\* C22: a document, photo or video handler run for an allowed sender sends
\* exactly one reply before it ends, on every path, provided that no
\* reply_text call fails.
C22_ExactlyOneReply ==
    \A t \in Tasks :
        Media(t) /\ Allowed(t) /\ RepliesDelivered(t) =>
            /\ Len(Calls(t)) <= 1
            /\ Ended(t) => Len(Texts(t)) = 1

\* Runs of an allowed sender have ended with one delivered reply on the
\* duplicate path.
C22_Witness ==
    \E t \in Tasks :
        /\ Media(t) /\ Allowed(t) /\ Ended(t) /\ RepliesDelivered(t)
        /\ Len(Texts(t)) = 1
        /\ Texts(t)[1][1] = "duplicate"

\* The step was taken before position i of the run's steps.
TookBefore(t, step, i) == \E j \in 1..(i - 1) : steps[t][j] = step

\* C23: a POST to the asset server is issued only if, earlier in the same
\* run, the sender passed the permission check, the ping returned 200, the
\* download left a file at the temporary path and, for a document, the
\* file was classified as image or video.
C23_PostPreconditions ==
    \A t \in Tasks : \A i \in DOMAIN steps[t] :
        steps[t][i] = "post" =>
            /\ Media(t)
            /\ TookBefore(t, "permission", i) /\ Allowed(t)
            /\ TookBefore(t, "ping", i) /\ ping[t] = "200"
            /\ TookBefore(t, "download", i) /\ TookBefore(t, "exists", i)
            /\ wrote[t]
            /\ ev[t].kind = "document" =>
                   /\ TookBefore(t, "classify", i)
                   /\ HandlerFileType(ev[t]) \in {"image", "video"}

(***************************************************************************)
(* get_immich_status.                                                      *)
(***************************************************************************)
StatusCalled == call.fn = "get_immich_status"

\* The lookup of the identity does not yield an identity: the request
\* raises, the status is not 200, or the body is not a JSON object.
LookupFails(user) ==
    \/ user.raises # "no"
    \/ user.status # "200"
    \/ user.body \in {"<html>", "[]"}

\* What get_immich_status does apart from the text of the placeholder: it
\* returns a pair, sends one ping, asks for the identity only after a ping
\* of 200, and reports a failed ping with the placeholder identity.
StatusContract(p, user, out) ==
    /\ Len(out) = 3
    /\ out[1][1] \in {"connected", "ping_failed", "connection_failed"}
    /\ Cardinality({i \in DOMAIN out[3] : out[3][i] = "ping"}) = 1
    /\ out[3][1] = "ping"
    /\ (\E i \in DOMAIN out[3] : out[3][i] = "users_me") <=> p = "200"
    /\ p # "200" =>
           /\ out[1][1] \in {"ping_failed", "connection_failed"}
           /\ out[2] = <<"unknown_user">>
    /\ p = "200" => out[1] = <<"connected">>
    /\ p = "200" /\ ~LookupFails(user) => out[2][1] = "name"

\* C24 as stated: get_immich_status never raises, sends exactly one ping,
\* asks for the identity only after a ping of 200, reports a failed or
\* raising ping as disconnected with the placeholder identity, and reports
\* every failure of the identity lookup alone as connected with the
\* could-not-retrieve placeholder.
C24_StatusNeverRaisesCouldNotRetrieve ==
    StatusCalled =>
        LET p == call.args[1]  user == call.args[2]  out == call.out IN
        /\ StatusContract(p, user, out)
        /\ p = "200" /\ LookupFails(user) => out[2][1] = "could_not_retrieve"

\* C24, amended: as above, but a lookup answered with status 200 and a body
\* that is not JSON is reported with the invalid-response placeholder; the
\* other failures of the lookup with the could-not-retrieve placeholder.
C24_StatusNeverRaises ==
    StatusCalled =>
        LET p == call.args[1]  user == call.args[2]  out == call.out IN
        /\ StatusContract(p, user, out)
        /\ p = "200" /\ LookupFails(user) =>
               out[2][1] = IF user.raises = "no" /\ user.status = "200"
                              /\ user.body = "<html>"
                           THEN "invalid_response"
                           ELSE "could_not_retrieve"

\* The ping returned 200 and the request for the identity raised.
C24_Witness ==
    /\ StatusCalled
    /\ call.args[1] = "200"
    /\ call.args[2].raises \in ExcMsgs
    /\ call.out[1] = <<"connected">>
    /\ call.out[2] = <<"could_not_retrieve">>

(***************************************************************************)
(* handle_message.                                                         *)
(***************************************************************************)
IsText(t) == ev[t].kind = "text"

\* C25: for a text message handle_message checks the permission before it
\* pings: a sender outside the allow-list gets no reply and causes no
\* ping; an allowed sender causes one ping and gets exactly one reply, the
\* connected message after a ping of 200 and the cannot-connect message
\* otherwise; nothing is downloaded, written to a temporary file or
\* uploaded.
C25_MessagePermissionThenPing ==
    \A t \in Tasks :
        IsText(t) =>
            /\ \A i \in DOMAIN steps[t] :
                   /\ steps[t][i] \in {"permission", "ping"}
                   /\ steps[t][i] = "ping" => TookBefore(t, "permission", i)
            /\ ~Allowed(t) =>
                   /\ Calls(t) = <<>>
                   /\ ~Took(t, "ping") /\ ping[t] = "none"
            /\ Allowed(t) =>
                   /\ Times(t, "ping") <= 1
                   /\ Len(Calls(t)) <= 1
                   /\ Ended(t) => Times(t, "ping") = 1 /\ Len(Texts(t)) = 1
                   /\ Calls(t) # <<>> =>
                          Calls(t)[1] = IF ping[t] = "200"
                                        THEN <<"connected", <<>>>>
                                        ELSE <<"cannot_connect", <<>>>>
            /\ ~wrote[t] /\ tmp[t] = Unbound /\ DOMAIN fs = {}
            /\ uploaded[t] = 0 /\ response[t] = NoResponse

\* An allowed sender's text message was answered with the cannot-connect
\* message after a failed ping.
C25_Witness ==
    \E t \in Tasks :
        /\ IsText(t) /\ Allowed(t) /\ pc[t] = "done"
        /\ ping[t] = "503"
        /\ Texts(t) = << <<"cannot_connect", <<>>>> >>

\* A text message from a sender outside the allow-list has ended.
C25_WitnessUnauthorized ==
    \E t \in Tasks :
        /\ IsText(t) /\ ~Allowed(t) /\ pc[t] = "done"
        /\ steps[t] = <<"permission">>

(***************************************************************************)
(* Commands and the allow-list.                                            *)
(***************************************************************************)
\* The connection status get_immich_status reports for a ping.
StatusFor(p) ==
    IF p = "200" THEN <<"connected">>
    ELSE IF p \in ExcMsgs THEN <<"connection_failed", p>>
    ELSE <<"ping_failed", p>>

IdentityTexts == {"name", "could_not_retrieve", "invalid_response", "unknown_user"}

\* C26: the command handlers check no permission: a command of any sender,
\* in the allow-list or not, gets a reply, and the reply to start and help
\* contains the connection status and the identity text.
C26_CommandsForEveryone ==
    \A t \in Tasks :
        IsCommand(t) =>
            /\ ~Took(t, "permission")
            /\ Ended(t) => Len(Texts(t)) = 1
            /\ Calls(t) # <<>> =>
                   IF ev[t].kind \in {"start", "help"}
                   THEN /\ Calls(t)[1][1] = "help"
                        /\ Len(Calls(t)[1][2]) = 2
                        /\ Calls(t)[1][2][1] = StatusFor(ping[t])
                        /\ Calls(t)[1][2][2][1] \in IdentityTexts
                   ELSE Calls(t)[1] = <<ev[t].kind, <<>>>>

\* A sender outside the allow-list has got the reply to start, with the
\* connected status and the name of the authenticated user.
C26_Witness ==
    \E t \in Tasks :
        /\ ev[t].kind = "start" /\ ~Allowed(t) /\ pc[t] = "done"
        /\ Len(Texts(t)) = 1
        /\ Texts(t)[1][2][1] = <<"connected">>
        /\ Texts(t)[1][2][2][1] = "name"

====
